---- MODULE Spec2Model ----
(***************************************************************************)
(* DNSgauge (src/src/dnsgauge.py): the measurement-and-aggregation engine. *)
(*                                                                         *)
(* Five specifications share this module:                                  *)
(*   ExecSpec   one call of udp_query / doh_query against every behaviour  *)
(*              of the network and of the DNS library;                     *)
(*   Spec       run_tests: the probe loop, the per-server aggregation and  *)
(*              the ranking, from the call to the return (or the raise);   *)
(*   RankSpec   the aggregation and ranking part of run_tests, entered     *)
(*              with captured outcome lists of long runs;                  *)
(*   ScoreSpec  compute_score over Metrics values of any shape;            *)
(*   AggSpec    one call of compute_metrics or percentile over outcome     *)
(*              lists of every composition.                                *)
(*                                                                         *)
(* Numbers.  Python floats are modelled in fixed point:                    *)
(*   a Measurement's latency_ms    whole milliseconds;                     *)
(*   a Metrics' *_ms fields        1/100 ms  (percentile's interpolation   *)
(*                                 of whole-ms samples is exact there);    *)
(*   a Metrics' *_pct fields       1/1000 of a percent, rounded down;      *)
(*   a score                       1/1000, each component rounded down;    *)
(*   a formatted score "%05.1f"    tenths.                                 *)
(* Optional[float] is a sequence: <<>> is None, <<x>> is the value x.      *)
(***************************************************************************)
EXTENDS Integers, Sequences, FiniteSets, TLC

VARIABLES
    \* run_tests (Spec, RankSpec)
    args,           \* the parameters of the call: servers, domains, qtypes, timeout_ms
                    \* (timeout * 1000.0), edns_payload, passes, mode, use_keepalive, progress_cb
    phase,          \* "Configured", "Running", "Complete"; "Aborted" when an exception left run_tests
    passes,         \* the local passes, clamped at the start of the run
    total,
    done,
    ema_ms,         \* Optional, in 1/100 ms
    client,         \* the shared httpx.Client: "None", "open" or "closed"
    client_opens,   \* how often httpx.Client(...) was called
    client_closes,  \* how often client.close() was called
    doh_host_count,
    results,        \* Dict[ServerTarget, List[Measurement]]: keyed by the target's value
    cur,            \* the loop variables <<p, server index, domain index, qtype index>>
    issued,         \* history: the loop variables of every probe issued so far, in order
    events,         \* history: the arguments of every progress_cb call, in order
    abort_cause,    \* history: "none", or what raised: "probe" or "callback"
    sel,            \* history: per catalog position, the list select_measures returned
    summary_rows,
    comp_rows,
    \* one executor call (ExecSpec)
    q_call,         \* the arguments and the network behaviour of the executor call
    q_ret,          \* what the call did: a returned Measurement or a raised exception,
                    \* and for udp_query the number of TCP queries it made
    \* compute_score alone (ScoreSpec)
    sc_m,           \* a Metrics value
    sc_score,       \* compute_score(sc_m), Optional: None until it is computed
    \* one aggregator call (AggSpec)
    ag_call,        \* the function called, compute_metrics or percentile, and its arguments
    ag_ret          \* Optional: None until the call has returned, then its result

run_vars == <<args, phase, passes, total, done, ema_ms, client, client_opens, client_closes,
              doh_host_count, results, cur, issued, events, abort_cause, sel,
              summary_rows, comp_rows>>

exec_vars == <<q_call, q_ret>>

score_vars == <<sc_m, sc_score>>

agg_vars == <<ag_call, ag_ret>>

vars == <<run_vars, exec_vars, score_vars, agg_vars>>

----------------------------------------------------------------------------
(* Optional values *)

None == <<>>

Some(x) == <<x>>

IsNone(o) == o = <<>>

Val(o) == o[1]

----------------------------------------------------------------------------
(* Measurement (dataclass, src/src/dnsgauge.py:81-93) *)

ErrorKinds == {"ok", "timeout", "http_err", "parse_err", "nxdomain", "servfail", "other"}

Measurement(latency_ms, ok, error_kind, resp_bytes, qtype, pass_index, trunc, tcp_fallback, http_version) ==
    [latency_ms |-> latency_ms, ok |-> ok, error_kind |-> error_kind,
     resp_bytes |-> resp_bytes, qtype |-> qtype, pass_index |-> pass_index,
     trunc |-> trunc, tcp_fallback |-> tcp_fallback, http_version |-> http_version]

----------------------------------------------------------------------------
(* The DNS library and the network, as the executor sees them.             *)

\* rcodes a response can carry; REFUSED stands for every rcode that is none
\* of NOERROR, NXDOMAIN, SERVFAIL.
Rcodes == {"NOERROR", "NXDOMAIN", "SERVFAIL", "REFUSED"}

\* dnspython takes record types and EDNS payload sizes as 16-bit values and
\* raises ValueError for anything else.
MaxU16 == 65535

\* make_dns_query: dns.message.make_query(domain, rdatatype_int) followed by
\* q.use_edns(edns=0, payload=edns_payload).  TRUE when the query is built,
\* FALSE when the library raises.
make_dns_query(domain, rdatatype_int, edns_payload) ==
    /\ rdatatype_int \in 0..MaxU16
    /\ edns_payload \in 0..MaxU16

classify_dns_rcode(rcode) ==
    IF rcode = "NOERROR" THEN "ok"
    ELSE IF rcode = "NXDOMAIN" THEN "nxdomain"
    ELSE IF rcode = "SERVFAIL" THEN "servfail"
    ELSE "other"

\* What a call of an executor does: it returns a Measurement or an exception
\* leaves it.
Return(meas) == [tag |-> "return", meas |-> meas]

Raise == [tag |-> "raise"]

\* The network's behaviour during one UDP probe:
\*   udp    "resp" (dns.query.udp returned), "timeout" (dns.exception.Timeout),
\*          "error" (any other exception)
\*   tc, rcode, lat, bytes     of the UDP response; lat is end - start
\*   tcp    the same three outcomes for dns.query.tcp; rcode2, lat2, bytes2
UdpNets(lats, sizes) ==
    [udp : {"resp", "timeout", "error"}, tc : BOOLEAN, rcode : Rcodes,
     lat : lats, bytes : sizes,
     tcp : {"resp", "timeout", "error"}, rcode2 : Rcodes, lat2 : lats, bytes2 : sizes]

\* The mutant of udp_query for C1: NXDOMAIN no longer counts as usable.
udp_query_nx_not_ok(qtype_label, qtype_int, domain, edns_payload, net) ==
    IF ~make_dns_query(domain, qtype_int, edns_payload) THEN Raise
    ELSE IF net.udp = "timeout" THEN
        Return(Measurement(None, FALSE, "timeout", 0, qtype_label, 1, FALSE, FALSE, ""))
    ELSE IF net.udp = "error" THEN
        Return(Measurement(None, FALSE, "other", 0, qtype_label, 1, FALSE, FALSE, ""))
    ELSE IF net.tc THEN
        IF net.tcp = "resp" THEN
            LET kind == classify_dns_rcode(net.rcode2)
                ok == (kind = "ok")
            IN  Return(Measurement(Some(net.lat2), ok, kind, net.bytes2,
                                   qtype_label, 1, TRUE, TRUE, ""))
        ELSE
            Return(Measurement(Some(net.lat), FALSE, "other", net.bytes,
                               qtype_label, 1, TRUE, TRUE, ""))
    ELSE
        LET kind == classify_dns_rcode(net.rcode)
            ok == (kind = "ok")
        IN  Return(Measurement(Some(net.lat), ok, kind, net.bytes,
                               qtype_label, 1, FALSE, FALSE, ""))

\* udp_query without the inner try/except: a failure of the TCP retry is
\* handled like a failure of the UDP query.
udp_query_tcp_failure_uncaught(qtype_label, qtype_int, domain, edns_payload, net) ==
    IF ~make_dns_query(domain, qtype_int, edns_payload) THEN Raise
    ELSE IF net.udp = "timeout" THEN
        Return(Measurement(None, FALSE, "timeout", 0, qtype_label, 1, FALSE, FALSE, ""))
    ELSE IF net.udp = "error" THEN
        Return(Measurement(None, FALSE, "other", 0, qtype_label, 1, FALSE, FALSE, ""))
    ELSE IF net.tc THEN
        IF net.tcp = "resp" THEN
            LET kind == classify_dns_rcode(net.rcode2)
                ok == (kind = "ok") \/ (kind \in {"nxdomain"})
            IN  Return(Measurement(Some(net.lat2), ok, kind, net.bytes2,
                                   qtype_label, 1, TRUE, TRUE, ""))
        ELSE IF net.tcp = "timeout" THEN
            Return(Measurement(None, FALSE, "timeout", 0, qtype_label, 1, FALSE, FALSE, ""))
        ELSE
            Return(Measurement(None, FALSE, "other", 0, qtype_label, 1, FALSE, FALSE, ""))
    ELSE
        LET kind == classify_dns_rcode(net.rcode)
            ok == (kind = "ok") \/ (kind \in {"nxdomain"})
        IN  Return(Measurement(Some(net.lat), ok, kind, net.bytes,
                               qtype_label, 1, FALSE, FALSE, ""))

\* The dns.query.tcp calls of one udp_query: one, inside "if trunc:", after
\* dns.query.udp returned a response with the TC flag.
tcp_queries(qtype_int, domain, edns_payload, net) ==
    IF make_dns_query(domain, qtype_int, edns_payload) /\ net.udp = "resp" /\ net.tc
    THEN 1 ELSE 0

\* udp_query.  make_dns_query is called before the try block, so an exception
\* of it leaves udp_query; everything after it is inside try/except.
udp_query(qtype_label, qtype_int, domain, edns_payload, net) ==
    IF ~make_dns_query(domain, qtype_int, edns_payload) THEN Raise
    ELSE IF net.udp = "timeout" THEN
        Return(Measurement(None, FALSE, "timeout", 0, qtype_label, 1, FALSE, FALSE, ""))
    ELSE IF net.udp = "error" THEN
        Return(Measurement(None, FALSE, "other", 0, qtype_label, 1, FALSE, FALSE, ""))
    ELSE IF net.tc THEN
        \* TCP fallback; the inner except catches every Exception, Timeout included
        IF net.tcp = "resp" THEN
            LET kind == classify_dns_rcode(net.rcode2)
                ok == (kind = "ok") \/ (kind \in {"nxdomain"})
            IN  Return(Measurement(Some(net.lat2), ok, kind, net.bytes2,
                                   qtype_label, 1, TRUE, TRUE, ""))
        ELSE
            Return(Measurement(Some(net.lat), FALSE, "other", net.bytes,
                               qtype_label, 1, TRUE, TRUE, ""))
    ELSE
        LET kind == classify_dns_rcode(net.rcode)
            ok == (kind = "ok") \/ (kind \in {"nxdomain"})
        IN  Return(Measurement(Some(net.lat), ok, kind, net.bytes,
                               qtype_label, 1, FALSE, FALSE, ""))

\* The network's behaviour during one DoH probe:
\*   http   "resp" (post returned), "timeout" (httpx.TimeoutException),
\*          "error" (any other exception)
\*   status, lat, bytes, http_version   of the HTTP response
\*   body   "dns" when dns.message.from_wire decodes it, "garbage" when it raises
\*   rcode  of the decoded message
HttpStatuses == {200, 503}

HttpVersions == {"", "HTTP/1.1", "HTTP/2"}

DohNets(lats, sizes) ==
    [http : {"resp", "timeout", "error"}, status : HttpStatuses,
     body : {"dns", "garbage"}, rcode : Rcodes, lat : lats, bytes : sizes,
     http_version : HttpVersions]

\* doh_query.  make_dns_query and query.to_wire() are called before the try
\* block.  has_client ("if client:") only selects client.post or httpx.post.
doh_query(qtype_label, qtype_int, domain, edns_payload, has_client, net) ==
    IF ~make_dns_query(domain, qtype_int, edns_payload) THEN Raise
    ELSE IF net.http = "timeout" THEN
        Return(Measurement(None, FALSE, "timeout", 0, qtype_label, 1, FALSE, FALSE, ""))
    ELSE IF net.http = "error" THEN
        Return(Measurement(None, FALSE, "other", 0, qtype_label, 1, FALSE, FALSE, ""))
    ELSE IF net.status # 200 THEN
        Return(Measurement(Some(net.lat), FALSE, "http_err", net.bytes,
                           qtype_label, 1, FALSE, FALSE, net.http_version))
    ELSE IF net.body # "dns" THEN
        Return(Measurement(Some(net.lat), FALSE, "parse_err", net.bytes,
                           qtype_label, 1, FALSE, FALSE, net.http_version))
    ELSE
        LET kind == classify_dns_rcode(net.rcode)
            ok == (kind = "ok") \/ (kind \in {"nxdomain"})
        IN  Return(Measurement(Some(net.lat), ok, kind, net.bytes,
                               qtype_label, 1, FALSE, FALSE, net.http_version))

----------------------------------------------------------------------------
(* Sequence helpers *)

RECURSIVE SumSeq(_)
SumSeq(xs) == IF xs = <<>> THEN 0 ELSE Head(xs) + SumSeq(Tail(xs))

\* [m.latency_ms for m in ms], [m.resp_bytes for m in ms], [m.http_version for m in ms]
MapLatency(ms) == [i \in 1..Len(ms) |-> Val(ms[i].latency_ms)]

MapRespBytes(ms) == [i \in 1..Len(ms) |-> ms[i].resp_bytes]

MapHttpVersion(ms) == [i \in 1..Len(ms) |-> ms[i].http_version]

\* x put into the ascending list xs, after the elements equal to it
RECURSIVE InsertAsc(_, _)
InsertAsc(xs, x) ==
    IF xs = <<>> THEN <<x>>
    ELSE IF Head(xs) <= x THEN <<Head(xs)>> \o InsertAsc(Tail(xs), x)
    ELSE <<x>> \o xs

\* sorted(xs)
RECURSIVE sorted(_)
sorted(xs) ==
    IF xs = <<>> THEN <<>> ELSE InsertAsc(sorted(SubSeq(xs, 1, Len(xs) - 1)), xs[Len(xs)])

Max(a, b) == IF a >= b THEN a ELSE b

Min(a, b) == IF a <= b THEN a ELSE b

\* The largest r in lo..hi with r * r <= x.
RECURSIVE SqrtSearch(_, _, _)
SqrtSearch(x, lo, hi) ==
    IF lo >= hi THEN lo
    ELSE LET mid == (lo + hi + 1) \div 2
         IN  IF mid * mid <= x THEN SqrtSearch(x, mid, hi) ELSE SqrtSearch(x, lo, mid - 1)

\* floor(sqrt(x)) for 0 <= x < 2^31
ISqrt(x) == SqrtSearch(x, 0, 46340)

----------------------------------------------------------------------------
(* Metrics aggregation (src/src/dnsgauge.py:96-233) *)

\* float("nan")
NaN == "nan"

\* percentile with the two interpolation weights exchanged
percentile_weights_swapped(sorted_vals, p) ==
    IF sorted_vals = <<>> THEN NaN
    ELSE IF p <= 0 THEN sorted_vals[1] * 100
    ELSE IF p >= 100 THEN sorted_vals[Len(sorted_vals)] * 100
    ELSE
        LET k100 == (Len(sorted_vals) - 1) * p
            f == k100 \div 100
            c == Min(f + 1, Len(sorted_vals) - 1)
        IN  IF f = c THEN sorted_vals[f + 1] * 100
            ELSE LET d0 == sorted_vals[f + 1] * (k100 - f * 100)
                     d1 == sorted_vals[c + 1] * (c * 100 - k100)
                 IN  d0 + d1

\* percentile(sorted_vals, p): sorted_vals in whole ms, the result in 1/100 ms.
\* k100 is 100 * k; int(k) truncates, and k >= 0.
percentile(sorted_vals, p) ==
    IF sorted_vals = <<>> THEN NaN
    ELSE IF p <= 0 THEN sorted_vals[1] * 100
    ELSE IF p >= 100 THEN sorted_vals[Len(sorted_vals)] * 100
    ELSE
        LET k100 == (Len(sorted_vals) - 1) * p
            f == k100 \div 100
            c == Min(f + 1, Len(sorted_vals) - 1)
        IN  IF f = c THEN sorted_vals[f + 1] * 100
            ELSE LET d0 == sorted_vals[f + 1] * (c * 100 - k100)
                     d1 == sorted_vals[c + 1] * (k100 - f * 100)
                 IN  d0 + d1

\* statistics.pstdev(xs), len(xs) >= 2, in 1/100 ms:
\*   sqrt(sum((x - mean)^2) / m) = sqrt(sum((m*x - S)^2) / m) / m.
RECURSIVE SumSqDev(_, _, _)
SumSqDev(xs, m, S) ==
    IF xs = <<>> THEN 0
    ELSE (m * Head(xs) - S) * (m * Head(xs) - S) + SumSqDev(Tail(xs), m, S)

pstdev(xs) ==
    LET m == Len(xs)
        Q == SumSqDev(xs, m, SumSeq(xs))
    IN  (ISqrt(Q \div m) * 100) \div m

\* max(counts.items(), key=lambda kv: kv[1])[0]: counts is filled in the order
\* of hv, and max returns the first of the items with the largest count.
http_version_mode_of(hv) ==
    IF hv = <<>> THEN ""
    ELSE
        LET count(v) == Cardinality({i \in 1..Len(hv) : hv[i] = v})
            first(v) == CHOOSE i \in 1..Len(hv) : hv[i] = v /\ \A j \in 1..(i - 1) : hv[j] # v
            best == CHOOSE i \in 1..Len(hv) :
                        /\ first(hv[i]) = i
                        /\ \A j \in 1..Len(hv) :
                              \/ count(hv[j]) < count(hv[i])
                              \/ count(hv[j]) = count(hv[i]) /\ first(hv[j]) >= i
        IN  hv[best]

Metrics(n, success_pct, timeout_pct, p50_ms, p95_ms, avg_ms, jitter_ms, nxdomain_pct, servfail_pct, http_err_pct, parse_err_pct, other_err_pct, trunc_pct, tcpfb_pct, resp_kb_p95, http_version_mode, conn_reuse_est_pct) ==
    [n |-> n, success_pct |-> success_pct, timeout_pct |-> timeout_pct,
     p50_ms |-> p50_ms, p95_ms |-> p95_ms, avg_ms |-> avg_ms, jitter_ms |-> jitter_ms,
     nxdomain_pct |-> nxdomain_pct, servfail_pct |-> servfail_pct,
     http_err_pct |-> http_err_pct, parse_err_pct |-> parse_err_pct,
     other_err_pct |-> other_err_pct, trunc_pct |-> trunc_pct, tcpfb_pct |-> tcpfb_pct,
     resp_kb_p95 |-> resp_kb_p95, http_version_mode |-> http_version_mode,
     conn_reuse_est_pct |-> conn_reuse_est_pct]

\* (count / n) * 100.0, in 1/1000 of a percent
PctOf_fraction(count, n) == (count * 1000) \div n

PctOf(count, n) == (count * 100000) \div n

IsOkWithLatency_any_outcome(m) == ~IsNone(m.latency_ms)

IsOkWithLatency(m) == m.ok /\ ~IsNone(m.latency_ms)

HasRespBytes(m) == m.resp_bytes > 0

HasHttpVersion(m) == m.http_version # ""

\* compute_metrics.  resp_kb_p95 is percentile(resp_sizes, 95) / 1024.0 and is
\* kept in 1/100 byte, undivided.
compute_metrics(measures, protocol, use_keepalive, n_doh_hosts) ==
    LET n == Len(measures) IN
    IF n = 0 THEN
        Metrics(0, 0, 0, None, None, None, None, 0, 0, 0, 0, 0, 0, 0, None, "", None)
    ELSE
        LET ok_lat == MapLatency(SelectSeq(measures, IsOkWithLatency))
            ok_lat_sorted == sorted(ok_lat)
            avg == IF ok_lat # <<>> THEN Some((SumSeq(ok_lat) * 100) \div Len(ok_lat)) ELSE None
            p50 == IF ok_lat_sorted # <<>> THEN Some(percentile(ok_lat_sorted, 50)) ELSE None
            p95 == IF ok_lat_sorted # <<>> THEN Some(percentile(ok_lat_sorted, 95)) ELSE None
            jitter == IF Len(ok_lat) >= 2 THEN Some(pstdev(ok_lat))
                      ELSE IF Len(ok_lat) = 1 THEN Some(0) ELSE None
            pct(kind) == PctOf(Cardinality({i \in 1..n : measures[i].error_kind = kind}), n)
            success_pct == PctOf(Cardinality({i \in 1..n : measures[i].ok}), n)
            trunc_pct == PctOf(Cardinality({i \in 1..n : measures[i].trunc}), n)
            tcpfb_pct == PctOf(Cardinality({i \in 1..n : measures[i].tcp_fallback}), n)
            resp_sizes == sorted(MapRespBytes(SelectSeq(measures, HasRespBytes)))
            resp_kb_p95 == IF resp_sizes # <<>> THEN Some(percentile(resp_sizes, 95)) ELSE None
            hv == MapHttpVersion(SelectSeq(measures, HasHttpVersion))
            new_conns_est == IF use_keepalive THEN Max(1, n_doh_hosts) ELSE n
            conn_reuse_est_pct ==
                IF protocol = "DoH"
                THEN Some(Max(0, ((n - new_conns_est) * 100000) \div n))
                ELSE None
        IN  Metrics(n, success_pct, pct("timeout"), p50, p95, avg, jitter,
                    pct("nxdomain"), pct("servfail"), pct("http_err"), pct("parse_err"),
                    pct("other"), trunc_pct, tcpfb_pct, resp_kb_p95,
                    http_version_mode_of(hv), conn_reuse_est_pct)

----------------------------------------------------------------------------
(* Scoring (src/src/dnsgauge.py:622-640) *)

\* compute_score with a tail component that is not inverted: it grows with p95.
compute_score_tail_grows(m) ==
    IF m.n = 0 \/ m.success_pct = 0 THEN 0
    ELSE
        LET p50 == IF ~IsNone(m.p50_ms) THEN Val(m.p50_ms) ELSE 1000000
            p95 == IF ~IsNone(m.p95_ms) THEN Val(m.p95_ms) ELSE 1000000
            jitter == IF ~IsNone(m.jitter_ms) THEN Val(m.jitter_ms) ELSE 1000000
        IN  (m.success_pct * 60) \div 100 + (25 * (p95 + 2500)) \div 1000
                + 100000000 \div (p50 + 2500) + 50000000 \div (jitter + 1000)

\* The mutant of compute_score for C7: only an empty sample set scores 0.
compute_score_no_floor(m) ==
    IF m.n = 0 THEN 0
    ELSE
        LET p50 == IF ~IsNone(m.p50_ms) THEN Val(m.p50_ms) ELSE 1000000
            p95 == IF ~IsNone(m.p95_ms) THEN Val(m.p95_ms) ELSE 1000000
            jitter == IF ~IsNone(m.jitter_ms) THEN Val(m.jitter_ms) ELSE 1000000
        IN  (m.success_pct * 60) \div 100 + 250000000 \div (p95 + 2500)
                + 100000000 \div (p50 + 2500) + 50000000 \div (jitter + 1000)

\* compute_score, in 1/1000.  10_000.0 ms is 1000000 in 1/100 ms;
\* 25.0 * (100.0 / (p95 + 25.0)) is 250000000 / (p95 + 2500) there, and so on.
compute_score(m) ==
    IF m.n = 0 \/ m.success_pct = 0 THEN 0
    ELSE
        LET p50 == IF ~IsNone(m.p50_ms) THEN Val(m.p50_ms) ELSE 1000000
            p95 == IF ~IsNone(m.p95_ms) THEN Val(m.p95_ms) ELSE 1000000
            jitter == IF ~IsNone(m.jitter_ms) THEN Val(m.jitter_ms) ELSE 1000000
            success_component == (m.success_pct * 60) \div 100
            tail_component == 250000000 \div (p95 + 2500)
            med_component == 100000000 \div (p50 + 2500)
            stable_component == 50000000 \div (jitter + 1000)
        IN  success_component + tail_component + med_component + stable_component

\* f"{score:05.1f}": the score rounded to one decimal; the string is
\* represented by its number of tenths.
fmt_score(score) == (score + 50) \div 100

\* float(r[0]): the number the formatted score reads as, in tenths.
parse_score(cell) == cell

----------------------------------------------------------------------------
(* Ranking (src/src/dnsgauge.py:797-805) *)

\* The mutant of InsertDesc for C10: r goes before the rows of equal score.
RECURSIVE InsertDesc_unstable(_, _)
InsertDesc_unstable(xs, r) ==
    IF xs = <<>> THEN <<r>>
    ELSE IF parse_score(Head(xs).score) > parse_score(r.score)
         THEN <<Head(xs)>> \o InsertDesc_unstable(Tail(xs), r)
         ELSE <<r>> \o xs

\* r put into the list xs, which is descending by score, after the rows whose
\* score is not smaller: rows of equal score keep their order.
RECURSIVE InsertDesc(_, _)
InsertDesc(xs, r) ==
    IF xs = <<>> THEN <<r>>
    ELSE IF parse_score(Head(xs).score) >= parse_score(r.score)
         THEN <<Head(xs)>> \o InsertDesc(Tail(xs), r)
         ELSE <<r>> \o xs

\* rows.sort(key=lambda r: float(r[0]), reverse=True): list.sort is stable, and
\* with reverse=True rows of equal key still keep their original order.
RECURSIVE sort_rows(_)
sort_rows(rows) ==
    IF rows = <<>> THEN <<>>
    ELSE InsertDesc(sort_rows(SubSeq(rows, 1, Len(rows) - 1)), rows[Len(rows)])

\* for i, r in enumerate(rows, start=1): r.insert(0, str(i))
add_rank(rows) == [i \in 1..Len(rows) |-> [rank |-> i] @@ rows[i]]

----------------------------------------------------------------------------
(* run_tests (src/src/dnsgauge.py:665-807) *)

ServerTarget(provider, protocol, endpoint) ==
    [provider |-> provider, protocol |-> protocol, endpoint |-> endpoint]

\* urlparse(url) for the DoH endpoints of the model: scheme, hostname and the
\* port written in the URL (None when it has none).
urlparse(url) ==
    CASE url = "https://cloudflare-dns.com/dns-query" ->
            [scheme |-> "https", hostname |-> "cloudflare-dns.com", port |-> None]
      [] url = "https://cloudflare-dns.com:443/dns-query" ->
            [scheme |-> "https", hostname |-> "cloudflare-dns.com", port |-> Some(443)]
      [] url = "https://dns.google/dns-query" ->
            [scheme |-> "https", hostname |-> "dns.google", port |-> None]
      [] OTHER -> [scheme |-> "", hostname |-> "", port |-> None]

\* doh_host_key: f"{u.scheme}://{host}:{port}", kept as its three parts
doh_host_key(url) ==
    LET u == urlparse(url)
        host == u.hostname
        port == IF ~IsNone(u.port) /\ Val(u.port) # 0 THEN Val(u.port)
                ELSE IF u.scheme = "https" THEN 443 ELSE 80
    IN  <<u.scheme, host, port>>

\* select_measures (the closure of run_tests)
IsWarmPass(m) == m.pass_index >= 2

\* The mutant of select_measures for C6: warm drops pass 1 whatever the pass count.
select_measures_any_passes(allm, mode, n_passes) ==
    IF mode = "warm" THEN SelectSeq(allm, IsWarmPass) ELSE allm

select_measures(allm, mode, n_passes) ==
    IF mode = "warm" /\ n_passes > 1 THEN SelectSeq(allm, IsWarmPass) ELSE allm

\* The mutant of loop_next for C4: the pass loop is the innermost one.
loop_next_pass_inner(c, n_servers, n_domains, n_qtypes) ==
    IF c[1] < passes THEN <<c[1] + 1, c[2], c[3], c[4]>>
    ELSE IF c[4] < n_qtypes THEN <<1, c[2], c[3], c[4] + 1>>
    ELSE IF c[3] < n_domains THEN <<1, c[2], c[3] + 1, 1>>
    ELSE IF c[2] < n_servers THEN <<1, c[2] + 1, 1, 1>>
    ELSE <<passes + 1, 1, 1, 1>>

\* The mutant of loop_next for C5: the server loop is the innermost one.
loop_next_server_inner(c, n_servers, n_domains, n_qtypes) ==
    IF c[2] < n_servers THEN <<c[1], c[2] + 1, c[3], c[4]>>
    ELSE IF c[4] < n_qtypes THEN <<c[1], 1, c[3], c[4] + 1>>
    ELSE IF c[3] < n_domains THEN <<c[1], 1, c[3] + 1, 1>>
    ELSE <<c[1] + 1, 1, 1, 1>>

\* The loop nest "for p / for server / for domain / for qtype": the loop
\* variables of the iteration after c.
loop_next(c, n_servers, n_domains, n_qtypes) ==
    IF c[4] < n_qtypes THEN <<c[1], c[2], c[3], c[4] + 1>>
    ELSE IF c[3] < n_domains THEN <<c[1], c[2], c[3] + 1, 1>>
    ELSE IF c[2] < n_servers THEN <<c[1], c[2] + 1, 1, 1>>
    ELSE <<c[1] + 1, 1, 1, 1>>

\* "warm" if (mode == "warm" and passes > 1) else "mixed"
mode_label(mode, n_passes) == IF mode = "warm" /\ n_passes > 1 THEN "warm" ELSE "mixed"

\* The body of "for server in servers" at catalog position i: the selection,
\* the metrics and the score of one server.
server_sel(i) == select_measures(results[args.servers[i]], args.mode, passes)

server_metrics(i) ==
    compute_metrics(server_sel(i), args.servers[i].protocol, args.use_keepalive, doh_host_count)

\* The summary row.  The cells that print fields of the Metrics are carried as
\* the Metrics record m; idx (the catalog position the row was built from) is
\* not a cell of the row: it names the row's server in the properties.
summary_row(i) ==
    LET server == args.servers[i]
        m == server_metrics(i)
    IN  [score |-> fmt_score(compute_score(m)), provider |-> server.provider,
         protocol |-> server.protocol, mode |-> mode_label(args.mode, passes),
         m |-> m, idx |-> i]

comp_row(i) ==
    LET server == args.servers[i]
        m == server_metrics(i)
    IN  [score |-> fmt_score(compute_score(m)), provider |-> server.provider,
         protocol |-> server.protocol, endpoint |-> server.endpoint,
         mode |-> mode_label(args.mode, passes), qtypes |-> args.qtypes,
         n |-> m.n, m |-> m, idx |-> i]

\* The networks the run is probed against: a usable answer at each latency, a
\* SERVFAIL answer, a timeout; for DoH an HTTP error too.
RunLatencies == {1000, 1001}

UdpAnswer(rcode, lat) ==
    [udp |-> "resp", tc |-> FALSE, rcode |-> rcode, lat |-> lat, bytes |-> 60,
     tcp |-> "resp", rcode2 |-> rcode, lat2 |-> lat, bytes2 |-> 60]

DohAnswer(status, rcode, lat) ==
    [http |-> "resp", status |-> status, body |-> "dns", rcode |-> rcode, lat |-> lat,
     bytes |-> 60, http_version |-> "HTTP/2"]

RunUdpNets ==
    {UdpAnswer("NOERROR", l) : l \in RunLatencies}
    \cup {UdpAnswer("SERVFAIL", 1000), [UdpAnswer("NOERROR", 1000) EXCEPT !.udp = "timeout"]}

RunDohNets ==
    {DohAnswer(200, "NOERROR", l) : l \in RunLatencies}
    \cup {DohAnswer(503, "NOERROR", 1000), [DohAnswer(200, "NOERROR", 1000) EXCEPT !.http = "timeout"]}

RunNets(protocol) == IF protocol = "UDP" THEN RunUdpNets ELSE RunDohNets

\* if not servers: return [], []
\* else the preparation up to the try block.
Start ==
    /\ phase = "Configured"
    /\ IF args.servers = <<>>
       THEN /\ phase' = "Complete"
            /\ UNCHANGED <<passes, total, client, client_opens, doh_host_count, results>>
       ELSE /\ phase' = "Running"
            /\ passes' = Max(1, args.passes)
            /\ total' = Len(args.servers) * Len(args.domains) * Len(args.qtypes)
                            * Max(1, args.passes)
            /\ client' = IF args.use_keepalive THEN "open" ELSE "None"
            /\ client_opens' = IF args.use_keepalive THEN client_opens + 1 ELSE client_opens
            /\ doh_host_count' =
                   Cardinality({doh_host_key(args.servers[i].endpoint) :
                                   i \in {j \in 1..Len(args.servers) :
                                             args.servers[j].protocol = "DoH"}})
            /\ results' = [s \in {args.servers[i] : i \in 1..Len(args.servers)} |-> <<>>]
    /\ UNCHANGED <<args, done, ema_ms, client_closes, cur, issued, events, abort_cause,
                   sel, summary_rows, comp_rows, exec_vars, score_vars, agg_vars>>

\* finally: if client: client.close()
Finally_leak == UNCHANGED <<client, client_closes>>

Finally ==
    /\ client' = IF client = "open" THEN "closed" ELSE client
    /\ client_closes' = IF client = "open" THEN client_closes + 1 ELSE client_closes

\* The executor call of the loop body.
run_query(server, qtype, domain, net) ==
    IF server.protocol = "UDP"
    THEN udp_query(qtype[1], qtype[2], domain, args.edns_payload, net)
    ELSE doh_query(qtype[1], qtype[2], domain, args.edns_payload, client # "None", net)

\* sample_ms = (timeout * 1000.0) if (meas.latency_ms is None) else meas.latency_ms
\* in 1/100 ms
sample_ms_by_ok(meas, timeout_ms) ==
    IF meas.ok THEN Val(meas.latency_ms) * 100 ELSE timeout_ms * 100

sample_ms(meas, timeout_ms) ==
    IF IsNone(meas.latency_ms) THEN timeout_ms * 100 ELSE Val(meas.latency_ms) * 100

\* ema_ms = sample_ms if ema_ms is None else (0.2 * sample_ms) + (0.8 * ema_ms)
ema_update_swapped(ema, sample) ==
    IF IsNone(ema) THEN sample ELSE (80 * sample + 20 * Val(ema)) \div 100

ema_update(ema, sample) ==
    IF IsNone(ema) THEN sample ELSE (20 * sample + 80 * Val(ema)) \div 100

\* eta_s = (ema_ms / 1000.0) * remaining if ema_ms is not None else 0.0
\* in 1/100000 s
eta_s_at_issue(ema, tot, n_done) ==
    IF IsNone(ema) THEN 0 ELSE Val(ema) * (tot - n_done + 1)

eta_s(ema, tot, n_done) ==
    IF IsNone(ema) THEN 0 ELSE Val(ema) * (tot - n_done)

\* progress_cb(done, total, ema_ms or 0.0, eta_s)
progress_event(n_done, tot, ema) ==
    <<n_done, tot, IF IsNone(ema) \/ Val(ema) = 0 THEN 0 ELSE Val(ema), eta_s(ema, tot, n_done)>>

\* One iteration of the innermost loop, whose executor call returns: the
\* measurement is stored, the estimator updated and the progress callback
\* called; an exception of the callback leaves run_tests through finally.
ProbeReturns ==
    /\ phase = "Running"
    /\ cur[1] <= passes
    /\ LET server == args.servers[cur[2]] IN
       \E net \in RunNets(server.protocol) :
         LET r == run_query(server, args.qtypes[cur[4]], args.domains[cur[3]], net) IN
         /\ r.tag = "return"
         /\ LET meas == [r.meas EXCEPT !.pass_index = cur[1]]
                new_ema == Some(ema_update(ema_ms, sample_ms(meas, args.timeout_ms)))
            IN  /\ results' = [results EXCEPT ![server] = Append(@, meas)]
                /\ done' = done + 1
                /\ ema_ms' = new_ema
                /\ events' = IF args.progress_cb # "None"
                             THEN Append(events, progress_event(done + 1, total, new_ema))
                             ELSE events
                /\ IF args.progress_cb = "raises"
                   THEN /\ phase' = "Aborted"
                        /\ abort_cause' = "callback"
                        /\ Finally
                        /\ UNCHANGED cur
                   ELSE /\ cur' = loop_next(cur, Len(args.servers), Len(args.domains),
                                            Len(args.qtypes))
                        /\ UNCHANGED <<phase, abort_cause, client, client_closes>>
    /\ issued' = Append(issued, cur)
    /\ UNCHANGED <<args, passes, total, client_opens, doh_host_count, sel,
                   summary_rows, comp_rows, exec_vars, score_vars, agg_vars>>

\* One iteration whose executor call raises: nothing in the loop catches it,
\* so it leaves run_tests through finally.
ProbeRaises ==
    /\ phase = "Running"
    /\ cur[1] <= passes
    /\ LET server == args.servers[cur[2]] IN
       \E net \in RunNets(server.protocol) :
         run_query(server, args.qtypes[cur[4]], args.domains[cur[3]], net).tag = "raise"
    /\ issued' = Append(issued, cur)
    /\ phase' = "Aborted"
    /\ abort_cause' = "probe"
    /\ Finally
    /\ UNCHANGED <<args, passes, total, done, ema_ms, client_opens, doh_host_count, results,
                   cur, events, sel, summary_rows, comp_rows, exec_vars, score_vars, agg_vars>>

\* The loops are exhausted: finally, then the rows are built, sorted and ranked
\* and run_tests returns them.
Finish ==
    /\ phase = "Running"
    /\ cur[1] > passes
    /\ Finally
    /\ sel' = [i \in 1..Len(args.servers) |-> server_sel(i)]
    /\ summary_rows' = add_rank(sort_rows([i \in 1..Len(args.servers) |-> summary_row(i)]))
    /\ comp_rows' = add_rank(sort_rows([i \in 1..Len(args.servers) |-> comp_row(i)]))
    /\ phase' = "Complete"
    /\ UNCHANGED <<args, passes, total, done, ema_ms, client_opens, doh_host_count, results,
                   cur, issued, events, abort_cause, exec_vars, score_vars, agg_vars>>

\* The catalog entries and argument values of the model.
ServerPool ==
    {ServerTarget("Cloudflare", "UDP", "1.1.1.1"),
     ServerTarget("Cloudflare", "DoH", "https://cloudflare-dns.com/dns-query"),
     ServerTarget("Google", "DoH", "https://dns.google/dns-query")}

\* A target build_servers adds for --doh: Cloudflare's endpoint with its port
\* spelled out.
CustomServers ==
    {ServerTarget("Custom", "DoH", "https://cloudflare-dns.com:443/dns-query")}

MaxServers == 2

MaxDomains == 2

MaxPasses == 2

MaxProbes == 4

SeqsUpTo(S, n) == UNION {[1..k -> S] : k \in 0..n}

DEFAULT_DOMAINS == <<"google.com", "youtube.com", "facebook.com", "amazon.com">>

DomainLists == {SubSeq(DEFAULT_DOMAINS, 1, k) : k \in 1..Min(MaxDomains, Len(DEFAULT_DOMAINS))}

QTypeLists == {<<<<"A", 1>>>>, <<<<"A", 1>>, <<"AAAA", 28>>>>,
               <<<<"70000", 70000>>>>, <<<<"A", 1>>, <<"70000", 70000>>>>}

RunArgs ==
    {a \in [servers : SeqsUpTo(ServerPool \cup CustomServers, MaxServers), domains : DomainLists,
            qtypes : QTypeLists, timeout_ms : {2500}, edns_payload : {1232},
            passes : 0..MaxPasses, mode : {"mixed", "warm"}, use_keepalive : BOOLEAN,
            progress_cb : {"None", "cb", "raises"}] :
        Len(a.servers) * Len(a.domains) * Len(a.qtypes) * Max(1, a.passes) <= MaxProbes}

\* The variables of run_tests before the call.
RunState0 ==
    /\ phase = "Configured"
    /\ passes = args.passes
    /\ total = 0
    /\ done = 0
    /\ ema_ms = None
    /\ client = "None"
    /\ client_opens = 0
    /\ client_closes = 0
    /\ doh_host_count = 0
    /\ results = <<>>
    /\ cur = <<1, 1, 1, 1>>
    /\ issued = <<>>
    /\ events = <<>>
    /\ abort_cause = "none"
    /\ sel = <<>>
    /\ summary_rows = <<>>
    /\ comp_rows = <<>>

\* No run: the value of the run's variables in ExecSpec and ScoreSpec.
IdleArgs ==
    [servers |-> <<>>, domains |-> <<>>, qtypes |-> <<>>, timeout_ms |-> 0, edns_payload |-> 0,
     passes |-> 0, mode |-> "mixed", use_keepalive |-> FALSE, progress_cb |-> "None"]

RunIdle ==
    /\ args = IdleArgs
    /\ RunState0

ExecIdle ==
    /\ q_call = [proto |-> "none"]
    /\ q_ret = [tag |-> "none"]

ScoreIdle ==
    /\ sc_m = <<>>
    /\ sc_score = None

AggIdle ==
    /\ ag_call = [fn |-> "none"]
    /\ ag_ret = None

Init ==
    /\ args \in RunArgs
    /\ RunState0
    /\ ExecIdle
    /\ ScoreIdle
    /\ AggIdle

Next == Start \/ ProbeReturns \/ ProbeRaises \/ Finish

Spec == Init /\ [][Next]_vars

----------------------------------------------------------------------------
(* RankSpec: run_tests from the end of its probe loop, with the outcome    *)
(* lists a long run against two servers has captured.  Each server shows   *)
(* one behaviour over the whole run; every captured Measurement is what    *)
(* the executor returns for that behaviour.  The estimator and the         *)
(* histories of the loop are not carried into this specification.          *)

\* The number of passes of the long run (--passes), one domain and one qtype.
LongPasses == 10000

\* Latencies of the two slow answers of the long run, under --timeout 2100.
SlowLatencies == <<2000000, 2032000>>

Behaviours == {"timeouts", "answers", "servfails", "two_slow_answers"}

\* The behaviours of the long run: all but two of its probes time out.
LongBehaviours == {"timeouts", "two_slow_answers"}

\* The network during probe k of n against a server of the behaviour.
BehaviourNet(protocol, behaviour, k, n) ==
    LET lat == IF behaviour = "two_slow_answers" /\ k > n - 2
               THEN SlowLatencies[k - (n - 2)] ELSE 1000
        answered == \/ behaviour \in {"answers", "servfails"}
                    \/ behaviour = "two_slow_answers" /\ k > n - 2
        rcode == IF behaviour = "servfails" THEN "SERVFAIL" ELSE "NOERROR"
    IN  IF protocol = "UDP"
        THEN [UdpAnswer(rcode, lat) EXCEPT !.udp = IF answered THEN "resp" ELSE "timeout"]
        ELSE [DohAnswer(200, rcode, lat) EXCEPT !.http = IF answered THEN "resp" ELSE "timeout"]

\* results[server] at the end of the loop: probe k of the server is the probe
\* of pass k (one domain, one qtype).
Captured(server, behaviour, a) ==
    LET n == Max(1, a.passes) IN
    [k \in 1..n |->
        LET net == BehaviourNet(server.protocol, behaviour, k, n)
            r == IF server.protocol = "UDP"
                 THEN udp_query(a.qtypes[1][1], a.qtypes[1][2], a.domains[1], a.edns_payload, net)
                 ELSE doh_query(a.qtypes[1][1], a.qtypes[1][2], a.domains[1], a.edns_payload,
                                a.use_keepalive, net)
        IN  [r.meas EXCEPT !.pass_index = k]]

RankArgs ==
    [servers : {sv \in [1..2 -> ServerPool] : sv[1] # sv[2]},
     domains : {<<"google.com">>}, qtypes : {<<<<"A", 1>>>>}, timeout_ms : {2100000},
     edns_payload : {1232}, passes : {1, 2, LongPasses}, mode : {"mixed", "warm"},
     use_keepalive : {TRUE}, progress_cb : {"None"}]

RankInit ==
    /\ args \in RankArgs
    /\ phase = "Running"
    /\ passes = Max(1, args.passes)
    /\ total = 2 * Max(1, args.passes)
    /\ done = total
    /\ ema_ms = None
    /\ client = "open"
    /\ client_opens = 1
    /\ client_closes = 0
    /\ doh_host_count =
           Cardinality({doh_host_key(args.servers[i].endpoint) :
                           i \in {j \in 1..2 : args.servers[j].protocol = "DoH"}})
    /\ \E b \in [1..2 -> IF args.passes = LongPasses THEN LongBehaviours ELSE Behaviours] :
           results = [s \in {args.servers[1], args.servers[2]} |->
                         IF s = args.servers[1] THEN Captured(s, b[1], args)
                         ELSE Captured(s, b[2], args)]
    /\ cur = <<passes + 1, 1, 1, 1>>
    /\ issued = <<>>
    /\ events = <<>>
    /\ abort_cause = "none"
    /\ sel = <<>>
    /\ summary_rows = <<>>
    /\ comp_rows = <<>>
    /\ ExecIdle
    /\ ScoreIdle
    /\ AggIdle

RankNext == Finish

RankSpec == RankInit /\ [][RankNext]_vars

----------------------------------------------------------------------------
(* ScoreSpec: compute_score applied to Metrics values of any shape, also   *)
(* shapes compute_metrics does not produce.                                *)

ScoreCounts == {0, 1, 4}

ScorePcts == {0, 25000, 100000}

ScoreLatencies == {None, Some(2000), Some(100100)}

ScoreMetrics ==
    {Metrics(n, success_pct, 0, p50, p95, p50, jitter, 0, 0, 0, 0, 0, 0, 0, None, "", None) :
        n \in ScoreCounts, success_pct \in ScorePcts, p50 \in ScoreLatencies,
        p95 \in ScoreLatencies, jitter \in ScoreLatencies}

ScoreInit ==
    /\ sc_m \in ScoreMetrics
    /\ sc_score = None
    /\ RunIdle
    /\ ExecIdle
    /\ AggIdle

ScoreApply ==
    /\ sc_score = None
    /\ sc_score' = Some(compute_score(sc_m))
    /\ UNCHANGED <<sc_m, run_vars, exec_vars, agg_vars>>

ScoreNext == ScoreApply

ScoreSpec == ScoreInit /\ [][ScoreNext]_vars

----------------------------------------------------------------------------
(* ExecSpec: one executor call at a time, over every behaviour.            *)

\* (label, rdatatype_int) pairs parse_qtypes can produce: the named types and
\* a numeric token, which is passed on unchecked.
QTypePool == {<<"A", 1>>, <<"AAAA", 28>>, <<"70000", 70000>>}

EdnsPayloads == {1232, 70000}

ExecLatencies == {20, 1000}

ExecSizes == {0, 60}

\* The calls: the arguments of udp_query / doh_query and the behaviour the
\* network shows during the call.
ExecCalls ==
    [proto : {"UDP"}, qtype : QTypePool, edns_payload : EdnsPayloads,
     net : UdpNets(ExecLatencies, ExecSizes \ {0})]
    \cup
    [proto : {"DoH"}, qtype : QTypePool, edns_payload : EdnsPayloads,
     client : BOOLEAN, net : DohNets(ExecLatencies, ExecSizes)]

NotCalled == [tag |-> "none"]

ExecInit ==
    /\ q_call \in ExecCalls
    /\ q_ret = NotCalled
    /\ RunIdle
    /\ ScoreIdle
    /\ AggIdle

ExecUdp ==
    /\ q_ret = NotCalled
    /\ q_call.proto = "UDP"
    /\ q_ret' = udp_query(q_call.qtype[1], q_call.qtype[2], "google.com",
                          q_call.edns_payload, q_call.net)
                 @@ [tcp_queries |-> tcp_queries(q_call.qtype[2], "google.com",
                                                 q_call.edns_payload, q_call.net)]
    /\ UNCHANGED <<q_call, run_vars, score_vars, agg_vars>>

ExecDoh ==
    /\ q_ret = NotCalled
    /\ q_call.proto = "DoH"
    /\ q_ret' = doh_query(q_call.qtype[1], q_call.qtype[2], "google.com",
                          q_call.edns_payload, q_call.client, q_call.net)
    /\ UNCHANGED <<q_call, run_vars, score_vars, agg_vars>>

ExecNext == ExecUdp \/ ExecDoh

ExecSpec == ExecInit /\ [][ExecNext]_vars

----------------------------------------------------------------------------
(* AggSpec: one call of compute_metrics or of percentile.                  *)

MaxSamples == 4

AggLatencies == {10, 20, 30, 40}

\* The outcomes udp_query returns: an answer at each latency, NXDOMAIN,
\* SERVFAIL, a timeout, a transport error, and a truncated answer whose TCP
\* retry times out.
AggUdpNets ==
    {UdpAnswer("NOERROR", l) : l \in AggLatencies}
    \cup {UdpAnswer("NXDOMAIN", 20), UdpAnswer("SERVFAIL", 20),
          [UdpAnswer("NOERROR", 20) EXCEPT !.udp = "timeout"],
          [UdpAnswer("NOERROR", 20) EXCEPT !.udp = "error"],
          [UdpAnswer("NOERROR", 20) EXCEPT !.tc = TRUE, !.tcp = "timeout"]}

\* The outcomes doh_query returns: an answer at two latencies, NXDOMAIN,
\* SERVFAIL, HTTP 503, an undecodable body, a timeout, a transport error.
AggDohNets ==
    {DohAnswer(200, "NOERROR", l) : l \in {10, 40}}
    \cup {DohAnswer(200, "NXDOMAIN", 20), DohAnswer(200, "SERVFAIL", 20),
          DohAnswer(503, "NOERROR", 20),
          [DohAnswer(200, "NOERROR", 20) EXCEPT !.body = "garbage"],
          [DohAnswer(200, "NOERROR", 20) EXCEPT !.http = "timeout"],
          [DohAnswer(200, "NOERROR", 20) EXCEPT !.http = "error"]}

AggMeasurements(protocol) ==
    IF protocol = "UDP"
    THEN {udp_query("A", 1, "google.com", 1232, net).meas : net \in AggUdpNets}
    ELSE {doh_query("A", 1, "google.com", 1232, TRUE, net).meas : net \in AggDohNets}

\* Ascending lists, as sorted() returns them.
IsAscending(xs) == \A i \in 1..(Len(xs) - 1) : xs[i] <= xs[i + 1]

\* p of the calls in compute_metrics (50, 95), the edges of the range and a
\* value on either side of it.
AggPs == {-5, 0, 25, 50, 95, 100, 120}

AggCalls ==
    [fn : {"compute_metrics"}, measures : SeqsUpTo(AggMeasurements("UDP"), MaxSamples),
     protocol : {"UDP"}, use_keepalive : BOOLEAN, doh_host_count : {0}]
    \cup
    [fn : {"compute_metrics"}, measures : SeqsUpTo(AggMeasurements("DoH"), MaxSamples),
     protocol : {"DoH"}, use_keepalive : BOOLEAN, doh_host_count : {1, 2}]
    \cup
    [fn : {"percentile"},
     sorted_vals : {xs \in SeqsUpTo(AggLatencies, MaxSamples) : xs # <<>> /\ IsAscending(xs)},
     p : AggPs]

AggInit ==
    /\ ag_call \in AggCalls
    /\ ag_ret = None
    /\ RunIdle
    /\ ExecIdle
    /\ ScoreIdle

AggMetrics ==
    /\ ag_ret = None
    /\ ag_call.fn = "compute_metrics"
    /\ ag_ret' = Some(compute_metrics(ag_call.measures, ag_call.protocol,
                                      ag_call.use_keepalive, ag_call.doh_host_count))
    /\ UNCHANGED <<ag_call, run_vars, exec_vars, score_vars>>

AggPercentile ==
    /\ ag_ret = None
    /\ ag_call.fn = "percentile"
    /\ ag_ret' = Some(percentile(ag_call.sorted_vals, ag_call.p))
    /\ UNCHANGED <<ag_call, run_vars, exec_vars, score_vars>>

AggNext == AggMetrics \/ AggPercentile

AggSpec == AggInit /\ [][AggNext]_vars

----------------------------------------------------------------------------
(* Properties *)

\* C1 (ExecSpec): every Measurement udp_query or doh_query returns, on every
\* return path, has ok = TRUE exactly when its error_kind is "ok" or "nxdomain".
C1_OkIffKind ==
    q_ret.tag = "return" =>
        (q_ret.meas.ok <=> q_ret.meas.error_kind \in {"ok", "nxdomain"})

\* An NXDOMAIN answer obtained over the TCP fallback was returned as usable.
C1_Witness ==
    /\ q_ret.tag = "return"
    /\ q_ret.meas.tcp_fallback
    /\ q_ret.meas.error_kind = "nxdomain"
    /\ q_ret.meas.ok

\* C2 (ExecSpec), as claimed: whatever step of a probe fails, building the
\* query included, the executor returns one Measurement whose error_kind is
\* one of the seven kinds, and no exception leaves it.
C2_NoExceptionEscapes ==
    q_ret # NotCalled =>
        /\ q_ret.tag = "return"
        /\ q_ret.meas.error_kind \in ErrorKinds

\* The number of probes of a run: passes x |servers| x |domains| x |qtypes|.
ProbeCount ==
    Max(1, args.passes) * Len(args.servers) * Len(args.domains) * Len(args.qtypes)

\* C3 (Spec), as claimed: whatever the probes' outcomes, run_tests goes from
\* Configured over Running to Complete; no failing probe ends it early, and at
\* the end exactly passes x |servers| x |domains| x |qtypes| probes were
\* issued, each one completed before the next, and there is one ranked row per
\* server.
C3_RunsToCompletion ==
    /\ abort_cause # "probe"
    /\ Len(issued) <= ProbeCount
    /\ phase = "Running" => done = Len(issued)
    /\ phase = "Complete" =>
          /\ Len(issued) = ProbeCount
          /\ done = ProbeCount
          /\ Len(summary_rows) = Len(args.servers)
          /\ Len(comp_rows) = Len(args.servers)
          /\ \A i \in 1..Len(args.servers) :
                /\ \E k \in 1..Len(summary_rows) :
                      summary_rows[k].idx = i /\ summary_rows[k].rank = k
                /\ \E k \in 1..Len(comp_rows) :
                      comp_rows[k].idx = i /\ comp_rows[k].rank = k

\* Probe i was issued before probe j, in the same pass.
SamePass(i, j) == i < j /\ issued[i][1] = issued[j][1]

\* Before probe j, the probe <<p, s, d, q>> was issued.
IssuedBefore(j, p, s, d, q) == \E k \in 1..(j - 1) : issued[k] = <<p, s, d, q>>

\* C4 (Spec): the pass loop is outermost: in the sequence of probes the pass
\* index never decreases, and when a probe of a pass is issued every probe of
\* every earlier pass (all servers, domains and qtypes) has been made.
C4_PassOutermost ==
    \A j \in 1..Len(issued) :
        /\ \A i \in 1..(j - 1) : issued[i][1] <= issued[j][1]
        /\ \A p \in 1..(issued[j][1] - 1) :
              \A s \in 1..Len(args.servers), d \in 1..Len(args.domains),
                 q \in 1..Len(args.qtypes) :
                  /\ IssuedBefore(j, p, s, d, q)
                  /\ done >= j - 1

\* A run of two passes against two servers has completed.
C4_Witness ==
    /\ phase = "Complete"
    /\ passes = 2
    /\ Len(args.servers) = 2
    /\ issued[Len(issued)][1] = 2

\* C5 (Spec), as claimed: within a pass, a server is never probed for a second
\* (domain, qtype) pair while another server has not yet been probed for the
\* first pair.
C5_PairBeforeServers ==
    \A i, j \in 1..Len(issued) :
        (/\ SamePass(i, j)
         /\ issued[i][2] = issued[j][2]
         /\ <<issued[i][3], issued[i][4]>> # <<issued[j][3], issued[j][4]>>)
        => \A s \in 1..Len(args.servers) :
               IssuedBefore(j, issued[i][1], s, issued[i][3], issued[i][4])

\* C5 (Spec), amended: within a pass, the run advances to another server only
\* after the server before it has been probed for every (domain, qtype) pair.
C5_ServerBeforePairs ==
    \A i, j \in 1..Len(issued) :
        (SamePass(i, j) /\ issued[i][2] # issued[j][2])
        => \A d \in 1..Len(args.domains), q \in 1..Len(args.qtypes) :
               IssuedBefore(j, issued[i][1], issued[i][2], d, q)

\* The second of two servers was probed in a run with two (domain, qtype) pairs.
C5_Witness ==
    /\ Len(args.servers) = 2
    /\ Len(args.domains) * Len(args.qtypes) = 2
    /\ \E j \in 1..Len(issued) : issued[j][2] = 2

\* xs without the outcomes of pass 1, the others in their order.
RECURSIVE DropPass1(_)
DropPass1(xs) ==
    IF xs = <<>> THEN <<>>
    ELSE (IF Head(xs).pass_index = 1 THEN <<>> ELSE <<Head(xs)>>) \o DropPass1(Tail(xs))

\* C6 (Spec): the list handed to the aggregator is, in mixed mode, every
\* outcome captured for the server; in warm mode with more than one pass, the
\* captured outcomes without those of pass 1, in their order; in warm mode
\* with one pass (also a pass count clamped up to 1), the same as in mixed mode.
C6_SampleSelection ==
    (phase = "Complete" /\ args.servers # <<>>) =>
        \A i \in 1..Len(args.servers) :
            LET allm == results[args.servers[i]]
                n_passes == Max(1, args.passes)
                expected == IF args.mode = "warm" /\ n_passes > 1
                            THEN DropPass1(allm) ELSE allm
            IN  /\ sel[i] = expected
                /\ \A k \in 1..Len(comp_rows) :
                      comp_rows[k].idx = i => comp_rows[k].n = Len(expected)

\* A warm run of two passes has dropped the pass-1 outcomes of a server and
\* kept the others.
C6_Witness ==
    /\ phase = "Complete"
    /\ args.mode = "warm"
    /\ passes = 2
    /\ \E i \in 1..Len(args.servers) :
          /\ sel[i] # <<>>
          /\ Len(sel[i]) < Len(results[args.servers[i]])

\* C7 (ScoreSpec): compute_score is exactly 0 for a Metrics with n = 0 or
\* success_pct = 0, whatever its other fields.
C7_ScoreFloor ==
    (~IsNone(sc_score) /\ (sc_m.n = 0 \/ sc_m.success_pct = 0)) => Val(sc_score) = 0

\* A Metrics with samples, no success and yet defined latencies was scored.
C7_Witness ==
    /\ ~IsNone(sc_score)
    /\ sc_m.n > 0
    /\ sc_m.success_pct = 0
    /\ ~IsNone(sc_m.p95_ms)
    /\ ~IsNone(sc_m.jitter_ms)

\* The selected samples of the server at catalog position i hold no success.
NoSuccess(i) == \A k \in 1..Len(sel[i]) : ~sel[i][k].ok

RanksFailedLast(rows) ==
    \A a, b \in 1..Len(rows) :
        (NoSuccess(rows[a].idx) /\ ~NoSuccess(rows[b].idx)) => rows[b].rank < rows[a].rank

\* C8 (RankSpec), as claimed: in the returned rows a server without any
\* successful selected sample has a larger rank number than every server with
\* at least one, however slow.
C8_FailedRanksLast ==
    phase = "Complete" => RanksFailedLast(summary_rows) /\ RanksFailedLast(comp_rows)

RanksByScore(rows) ==
    \A a, b \in 1..Len(rows) :
        compute_score(rows[a].m) > compute_score(rows[b].m) => rows[a].rank < rows[b].rank

\* C9 (Spec), as claimed: of two servers, the one whose compute_score is
\* strictly higher has the smaller rank number.
C9_SortedByScore ==
    phase = "Complete" => RanksByScore(summary_rows) /\ RanksByScore(comp_rows)

RanksTiesInCatalogOrder(rows) ==
    \A a, b \in 1..Len(rows) :
        (compute_score(rows[a].m) = compute_score(rows[b].m) /\ rows[a].idx < rows[b].idx)
        => rows[a].rank < rows[b].rank

\* C10 (Spec): two servers with the same compute_score keep their catalog
\* order in the summary rows and in the comprehensive rows.
C10_StableRanking ==
    phase = "Complete" =>
        RanksTiesInCatalogOrder(summary_rows) /\ RanksTiesInCatalogOrder(comp_rows)

\* Two servers with the same, non-zero score were ranked.
C10_Witness ==
    /\ phase = "Complete"
    /\ Len(comp_rows) = 2
    /\ compute_score(comp_rows[1].m) = compute_score(comp_rows[2].m)
    /\ compute_score(comp_rows[1].m) > 0
    /\ comp_rows[1].idx = 1

----------------------------------------------------------------------------
(* The estimator, the progress events and the shared client.               *)

\* The Measurement the step's probe returned: the one the step appended to
\* the list of the server the loop is at.
StepMeas ==
    LET s == args.servers[cur[2]] IN results'[s][Len(results'[s])]

\* ema' is 0.2 * sample + 0.8 * ema (sample itself on the first probe), to
\* within one unit of the fixed-point representation.
EmaFollows(sample) ==
    /\ ~IsNone(ema_ms')
    /\ IF IsNone(ema_ms) THEN Val(ema_ms') = sample
       ELSE /\ 100 * Val(ema_ms') <= 20 * sample + 80 * Val(ema_ms)
            /\ 20 * sample + 80 * Val(ema_ms) < 100 * Val(ema_ms') + 100

\* C11 (Spec), as claimed: each completed probe updates the estimator with
\* sample_ms = the probe's latency when its outcome is ok, and the full
\* timeout when its outcome is a failure or timeout.
C11_EmaChargesFailuresTimeout ==
    [][done' = done + 1 =>
          EmaFollows(IF StepMeas.ok THEN Val(StepMeas.latency_ms) * 100
                     ELSE args.timeout_ms * 100)]_vars

\* C11 (Spec), amended: each completed probe updates the estimator with
\* sample_ms = the probe's latency_ms whenever the outcome carries one (a
\* failure built from a response included), and the full timeout only when
\* latency_ms is None; ema is sample_ms on the first probe and
\* 0.2 * sample_ms + 0.8 * ema afterwards.
C11_EmaChargesMeasuredLatency ==
    [][done' = done + 1 =>
          EmaFollows(IF StepMeas.latency_ms = None THEN args.timeout_ms * 100
                     ELSE Val(StepMeas.latency_ms) * 100)]_vars

\* After at least two probes, one of them a failure that carries a latency
\* and one a timeout, the estimator holds a value.
C11_Witness ==
    /\ phase = "Running"
    /\ done >= 2
    /\ ~IsNone(ema_ms)
    /\ \E s \in DOMAIN results : \E k \in 1..Len(results[s]) :
          ~results[s][k].ok /\ ~IsNone(results[s][k].latency_ms)
    /\ \E s \in DOMAIN results : \E k \in 1..Len(results[s]) :
          IsNone(results[s][k].latency_ms)

\* C12 (Spec): with a progress callback, one event per completed probe and no
\* other; the k-th event carries done = k, the constant total =
\* passes x |servers| x |domains| x |qtypes|, and eta_seconds =
\* (ema / 1000) * (total - k); the last event carries the current ema; a
\* completed run has emitted total events, the last with eta 0.  Without a
\* callback nothing is emitted.
C12_ProgressEvents ==
    /\ args.progress_cb = "None" => events = <<>>
    /\ args.progress_cb # "None" =>
          /\ Len(events) = done
          /\ done <= ProbeCount
          /\ \A k \in 1..Len(events) :
                /\ events[k][1] = k
                /\ events[k][2] = ProbeCount
                /\ events[k][4] = events[k][3] * (ProbeCount - k)
          /\ done > 0 => events[done][3] = Val(ema_ms)
          /\ phase = "Complete" =>
                /\ Len(events) = ProbeCount
                /\ ProbeCount > 0 => events[ProbeCount][4] = 0

\* A run with a callback completed after several probes, and an event before
\* the last one carried a positive eta.
C12_Witness ==
    /\ phase = "Complete"
    /\ args.progress_cb = "cb"
    /\ Len(events) >= 3
    /\ events[1][4] > 0
    /\ events[Len(events)][4] = 0

\* C13 (Spec): with connection reuse and a non-empty server list the client
\* is opened exactly once, before the first probe; it stays open while
\* probes are issued and is closed exactly once when the run ends, normally
\* or by an exception of a probe or of the callback; without reuse, or with
\* an empty server list, no client is opened or closed.
C13_ClientScope ==
    /\ client_opens = IF phase # "Configured" /\ args.use_keepalive /\ args.servers # <<>>
                      THEN 1 ELSE 0
    /\ client_opens = 0 => client = "None" /\ client_closes = 0
    /\ phase = "Configured" => issued = <<>>
    /\ phase = "Running" => client_closes = 0 /\ client # "closed"
    /\ phase \in {"Complete", "Aborted"} =>
          client_closes = client_opens /\ client # "open"

\* A probe raised in a run with connection reuse, and the client was closed.
C13_Witness ==
    /\ phase = "Aborted"
    /\ abort_cause = "probe"
    /\ args.use_keepalive
    /\ Len(issued) >= 2
    /\ client = "closed"
    /\ client_closes = 1

----------------------------------------------------------------------------
(* The aggregator.                                                         *)

\* compute_metrics has returned the Metrics of a non-empty outcome list.
MetricsReturned ==
    /\ ag_call.fn = "compute_metrics"
    /\ ~IsNone(ag_ret)
    /\ Val(ag_ret).n > 0

\* x is 100 percent, short of it by less than the rounding of `terms` terms.
IsHundredPct(x, terms) == 100000 - terms < x /\ x <= 100000

\* C14 (AggSpec), as claimed: over a non-empty outcome list success_pct +
\* timeout_pct + nxdomain_pct + servfail_pct + http_err_pct + parse_err_pct +
\* other_err_pct is 100.
C14_SevenPctsSumTo100 ==
    MetricsReturned =>
        LET m == Val(ag_ret) IN
        IsHundredPct(m.success_pct + m.timeout_pct + m.nxdomain_pct + m.servfail_pct
                        + m.http_err_pct + m.parse_err_pct + m.other_err_pct, 7)

\* C14 (AggSpec), amended: success_pct counts the 'ok' and the 'nxdomain'
\* outcomes together, so success_pct + timeout_pct + servfail_pct +
\* http_err_pct + parse_err_pct + other_err_pct is 100, nxdomain_pct is a
\* part of success_pct, and the seven percentages sum to 100 + nxdomain_pct.
C14_SixPctsSumTo100 ==
    MetricsReturned =>
        LET m == Val(ag_ret) IN
        /\ IsHundredPct(m.success_pct + m.timeout_pct + m.servfail_pct
                           + m.http_err_pct + m.parse_err_pct + m.other_err_pct, 6)
        /\ m.nxdomain_pct <= m.success_pct

\* Metrics of a list that holds an NXDOMAIN answer, a usable answer and
\* failures of two kinds.
C14_Witness ==
    /\ MetricsReturned
    /\ Val(ag_ret).n = 4
    /\ Val(ag_ret).nxdomain_pct > 0
    /\ Val(ag_ret).success_pct > Val(ag_ret).nxdomain_pct
    /\ Val(ag_ret).timeout_pct > 0
    /\ Val(ag_ret).servfail_pct > 0

\* compute_metrics has returned the Metrics of a list without a successful
\* outcome (the empty list included).
NoSuccessReturned ==
    /\ ag_call.fn = "compute_metrics"
    /\ ~IsNone(ag_ret)
    /\ \A i \in 1..Len(ag_call.measures) : ~ag_call.measures[i].ok

\* C15 (AggSpec), as claimed: without a successful outcome p50_ms, p95_ms,
\* avg_ms, jitter_ms and resp_kb_p95 are all None.
C15_NoSuccessAllAbsent ==
    NoSuccessReturned =>
        LET m == Val(ag_ret) IN
        /\ m.p50_ms = None /\ m.p95_ms = None /\ m.avg_ms = None /\ m.jitter_ms = None
        /\ m.resp_kb_p95 = None

\* C15 (AggSpec), amended: without a successful outcome the latency fields
\* p50_ms, p95_ms, avg_ms and jitter_ms are None, never NaN or a number;
\* resp_kb_p95 is None exactly when no outcome of the list, failed ones
\* included, carries a response of positive size, and a number otherwise.
C15_NoSuccessLatenciesAbsent ==
    NoSuccessReturned =>
        LET m == Val(ag_ret) IN
        /\ m.p50_ms = None /\ m.p95_ms = None /\ m.avg_ms = None /\ m.jitter_ms = None
        /\ m.resp_kb_p95 = None
              <=> \A i \in 1..Len(ag_call.measures) : ag_call.measures[i].resp_bytes = 0
        /\ m.resp_kb_p95 # None => Val(m.resp_kb_p95) \in Nat

\* Metrics of failures only, among them one built from a response (it has a
\* latency and a size) and a timeout.
C15_Witness ==
    /\ NoSuccessReturned
    /\ Len(ag_call.measures) >= 2
    /\ \E i \in 1..Len(ag_call.measures) :
          /\ ~IsNone(ag_call.measures[i].latency_ms)
          /\ ag_call.measures[i].resp_bytes > 0
    /\ \E i \in 1..Len(ag_call.measures) : ag_call.measures[i].error_kind = "timeout"
    /\ Val(ag_ret).p50_ms = None
    /\ Val(ag_ret).resp_kb_p95 # None

\* percentile has returned.
PercentileReturned == ag_call.fn = "percentile" /\ ~IsNone(ag_ret)

\* C16 (AggSpec): on a non-empty ascending list of length m, percentile
\* returns sorted[0] for p <= 0, sorted[m-1] for p >= 100, and otherwise, with
\* k = (m-1)*p/100, f = floor(k), c = min(f+1, m-1), sorted[f] if f = c and
\* sorted[f]*(c-k) + sorted[c]*(k-f) if not; percentile([10,20,30,40], 50) is
\* 25; the result lies between sorted[f] and sorted[c].  (Results in 1/100;
\* k is kept as 100*k.)
C16_PercentileInterpolates ==
    PercentileReturned =>
        LET xs == ag_call.sorted_vals
            m == Len(xs)
            p == ag_call.p
            r == Val(ag_ret)
            k100 == (m - 1) * p
            f == CHOOSE i \in 0..(m - 1) : 100 * i <= k100 /\ k100 < 100 * (i + 1)
            c == IF f + 1 < m - 1 THEN f + 1 ELSE m - 1
        IN  /\ p <= 0 => r = 100 * xs[1]
            /\ p >= 100 => r = 100 * xs[m]
            /\ (0 < p /\ p < 100) =>
                  /\ f = c => r = 100 * xs[f + 1]
                  /\ f # c => r = xs[f + 1] * (100 * c - k100) + xs[c + 1] * (k100 - 100 * f)
                  /\ 100 * xs[f + 1] <= r /\ r <= 100 * xs[c + 1]
            /\ (xs = <<10, 20, 30, 40>> /\ p = 50) => r = 2500

\* percentile([10, 20, 30, 40], 50) has returned 25.
C16_Witness ==
    /\ PercentileReturned
    /\ ag_call.sorted_vals = <<10, 20, 30, 40>>
    /\ ag_call.p = 50
    /\ Val(ag_ret) = 2500

\* The logical hosts of the run's DoH targets: scheme, hostname and the port
\* in effect (443 for https when the URL names none).
LogicalHost(endpoint) ==
    CASE endpoint = "https://cloudflare-dns.com/dns-query" -> <<"https", "cloudflare-dns.com", 443>>
      [] endpoint = "https://cloudflare-dns.com:443/dns-query" -> <<"https", "cloudflare-dns.com", 443>>
      [] endpoint = "https://dns.google/dns-query" -> <<"https", "dns.google", 443>>

LogicalHostCount ==
    Cardinality({LogicalHost(args.servers[i].endpoint) :
                    i \in {j \in 1..Len(args.servers) : args.servers[j].protocol = "DoH"}})

\* The DoH probes of the run that entered the rows: the samples of the DoH
\* rows together.
RECURSIVE DohSamples(_)
DohSamples(k) ==
    IF k = 0 THEN 0
    ELSE (IF comp_rows[k].protocol = "DoH" THEN comp_rows[k].m.n ELSE 0) + DohSamples(k - 1)

\* No target is listed twice.
DistinctTargets ==
    \A i, j \in 1..Len(args.servers) : i # j => args.servers[i] # args.servers[j]

\* C17 (Spec), as claimed: a completed run of N DoH probes against H distinct
\* logical hosts (no target listed twice) reports, in every DoH row,
\* conn_reuse_est_pct = max(0, (1 - H/N) * 100) with connection reuse, and 0
\* without.
C17_RunReuseEstimate ==
    (phase = "Complete" /\ DistinctTargets) =>
        \A k \in 1..Len(comp_rows) :
            comp_rows[k].protocol = "DoH" =>
                LET N == DohSamples(Len(comp_rows))
                    H == LogicalHostCount
                    r == comp_rows[k].m.conn_reuse_est_pct
                IN  /\ ~IsNone(r)
                    /\ args.use_keepalive =>
                          /\ N <= H => Val(r) = 0
                          /\ N > H => /\ Val(r) * N <= (N - H) * 100000
                                      /\ (N - H) * 100000 < (Val(r) + 1) * N
                    /\ ~args.use_keepalive => Val(r) = 0

----------------------------------------------------------------------------
(* The scorer.                                                             *)

\* m2 is m1 with a larger success_pct and nothing else changed.
RaisesSuccess(m1, m2) ==
    /\ m2 = [m1 EXCEPT !.success_pct = m2.success_pct]
    /\ m2.success_pct > m1.success_pct

\* m2 is m1 with a smaller p95_ms and nothing else changed.
LowersP95(m1, m2) ==
    /\ ~IsNone(m1.p95_ms) /\ ~IsNone(m2.p95_ms)
    /\ m2 = [m1 EXCEPT !.p95_ms = m2.p95_ms]
    /\ Val(m2.p95_ms) < Val(m1.p95_ms)

\* C18 (ScoreSpec): a Metrics that differs from the scored one only by a
\* larger success_pct (also when the scored one has success_pct 0), or only
\* by a smaller p95_ms, never scores less.
C18_ScoreMonotone ==
    ~IsNone(sc_score) =>
        \A m2 \in ScoreMetrics :
            (RaisesSuccess(sc_m, m2) \/ LowersP95(sc_m, m2)) => compute_score(m2) >= Val(sc_score)

\* A Metrics with a positive score was scored, and both a Metrics with more
\* success and one with a smaller p95_ms score strictly more.
C18_Witness ==
    /\ ~IsNone(sc_score)
    /\ Val(sc_score) > 0
    /\ \E m2 \in ScoreMetrics : RaisesSuccess(sc_m, m2) /\ compute_score(m2) > Val(sc_score)
    /\ \E m2 \in ScoreMetrics : LowersP95(sc_m, m2) /\ compute_score(m2) > Val(sc_score)

----------------------------------------------------------------------------
(* The executors: latency and the TCP fallback.                            *)

\* What the transport call of the executor did: "resp" when dns.query.udp or
\* the HTTP post returned a response, "timeout" or "error" when it raised.
Transport == IF q_call.proto = "UDP" THEN q_call.net.udp ELSE q_call.net.http

\* C19 (ExecSpec): a returned Measurement has latency_ms None exactly when
\* the transport call timed out or raised instead of returning a response;
\* the kind is then 'timeout' or 'other'.  Every outcome built from a response
\* (ok, nxdomain, servfail, http_err, parse_err, an rcode classified 'other',
\* a failed TCP retry after a truncated response) carries a latency_ms.
C19_LatencyAbsentIffNoResponse ==
    q_ret.tag = "return" =>
        LET meas == q_ret.meas IN
        /\ IsNone(meas.latency_ms) <=> Transport # "resp"
        /\ meas.error_kind = "timeout" => IsNone(meas.latency_ms)
        /\ IsNone(meas.latency_ms) => meas.error_kind \in {"timeout", "other"}
        /\ meas.error_kind \in {"ok", "nxdomain", "servfail", "http_err", "parse_err"}
              => ~IsNone(meas.latency_ms)
        /\ meas.trunc => ~IsNone(meas.latency_ms)

\* A truncated UDP response whose TCP retry timed out: the outcome is 'other'
\* and carries a latency.
C19_Witness ==
    /\ q_ret.tag = "return"
    /\ q_call.proto = "UDP"
    /\ q_call.net.udp = "resp" /\ q_call.net.tc /\ q_call.net.tcp = "timeout"
    /\ q_ret.meas.error_kind = "other"
    /\ ~IsNone(q_ret.meas.latency_ms)

\* C20 (ExecSpec): udp_query makes at most one TCP query, and makes it only
\* after a UDP response with the TC flag; the outcome's trunc and
\* tcp_fallback are equal; when the TCP retry answers, latency, size and
\* classification are those of the TCP response; when it fails, by a timeout
\* or otherwise, the outcome is 'other', not ok, with the latency of the UDP
\* round trip.
C20_TruncationFallback ==
    (q_call.proto = "UDP" /\ q_ret.tag # "none") =>
        LET net == q_call.net
            truncated == net.udp = "resp" /\ net.tc
        IN  /\ q_ret.tcp_queries <= 1
            /\ q_ret.tcp_queries = 1 => truncated
            /\ q_ret.tag = "return" =>
                  LET meas == q_ret.meas IN
                  /\ meas.trunc = meas.tcp_fallback
                  /\ meas.tcp_fallback <=> q_ret.tcp_queries = 1
                  /\ meas.trunc <=> truncated
                  /\ (truncated /\ net.tcp = "resp") =>
                        /\ meas.latency_ms = Some(net.lat2)
                        /\ meas.error_kind = classify_dns_rcode(net.rcode2)
                        /\ meas.resp_bytes = net.bytes2
                  /\ (truncated /\ net.tcp # "resp") =>
                        /\ meas.error_kind = "other"
                        /\ ~meas.ok
                        /\ meas.latency_ms = Some(net.lat)

\* A truncated UDP response whose TCP retry answered with another latency and
\* another rcode than the UDP response had.
C20_Witness ==
    /\ q_call.proto = "UDP"
    /\ q_ret.tag = "return"
    /\ q_ret.tcp_queries = 1
    /\ q_call.net.tcp = "resp"
    /\ q_call.net.lat # q_call.net.lat2
    /\ q_call.net.rcode # q_call.net.rcode2
    /\ q_ret.meas.latency_ms = Some(q_call.net.lat2)
    /\ q_ret.meas.tcp_fallback

----------------------------------------------------------------------------
(* Sample counts.                                                          *)

\* The outcomes captured for the first k servers of the catalog, each server
\* counted with the list results holds for it.
RECURSIVE CapturedCount(_)
CapturedCount(k) ==
    IF k = 0 THEN 0 ELSE Len(results[args.servers[k]]) + CapturedCount(k - 1)

\* The samples a row holds by the selection policy: every pass in mixed mode,
\* every pass but the first in warm mode with more than one pass.
ExpectedSamples ==
    (IF args.mode = "warm" /\ passes > 1 THEN passes - 1 ELSE passes)
        * Len(args.domains) * Len(args.qtypes)

\* Every row of the completed run has the expected sample count, and the
\* per-server counts of captured outcomes sum to the probes issued.
CountsAddUp ==
    /\ \A k \in 1..Len(comp_rows) : comp_rows[k].m.n = ExpectedSamples
    /\ \A k \in 1..Len(summary_rows) : summary_rows[k].m.n = ExpectedSamples
    /\ CapturedCount(Len(args.servers)) = Len(issued)
    /\ Len(issued) = total

\* C21 (Spec), as claimed: at the end of any run, for every server list, also
\* one that names a target twice, each row has n = passes x |domains| x
\* |qtypes| in mixed mode and (passes-1) x |domains| x |qtypes| in warm mode
\* with passes > 1, and the per-server counts of captured outcomes sum to the
\* number of probes issued.
C21_RowSampleCounts ==
    (phase = "Complete" /\ args.servers # <<>>) => CountsAddUp

\* The same, for the runs whose catalog names no target twice.
C21_DistinctTargetsCounts ==
    (phase = "Complete" /\ args.servers # <<>> /\ DistinctTargets) => CountsAddUp

====
